---- MODULE Spec2Model ----
(***************************************************************************)
(* Subscription lifecycle of the SaaS customer portal:                     *)
(* SubscriptionService.resolveSubscription and                             *)
(* SubscriptionService.removeSubscription, run as request-scoped tasks     *)
(* against the Organization store, the User store and the marketplace      *)
(* fulfillment API.  Every await of the code is one step of a task.        *)
(***************************************************************************)
EXTENDS Integers, Sequences, FiniteSets, TLC

VARIABLES
    orgs,         \* Organization store: tenantId -> [exists, subscriptions]
    users,        \* User store: sequence of User documents, _id = position
    inv,          \* request task -> its invocation (position and locals)
    calls,        \* invocations started so far
    concurrency,  \* request tasks the host runs at the same time
    prev,         \* the last invocation that ended, with the owners it left
    http          \* request task -> the HTTP trigger run that serves its request

vars == <<orgs, users, inv, calls, concurrency, prev, http>>

(***************************************************************************)
(* Bounds                                                                  *)
(***************************************************************************)
MaxCalls == 2
Tasks == {1, 2}

(***************************************************************************)
(* Values                                                                  *)
(***************************************************************************)
Subscribed == "Subscribed"
Unsubscribed == "Unsubscribed"
PendingFulfillmentStart == "PendingFulfillmentStart"
Admin == "Admin"
Member == "Member"

Tenants == {"t1", "t2"}
SubscriptionIds == {"s1", "s2"}

Principal(e, o, t) == [emailId |-> e, objectId |-> o, tenantId |-> t]

Purchasers == {Principal("e1", "u1", "t1"), Principal("e2", "u1", "t1")}
Beneficiaries ==
    {Principal("e1", "u1", "t1"), Principal("e2", "u2", "t1"),
     Principal("e2", "u2", "t2")}

Plans == {[planId |-> "p1", quantity |-> 5], [planId |-> "p2", quantity |-> 1]}

FetchedStatuses == {PendingFulfillmentStart, Subscribed}

\* ISubscription, restricted to the fields the service reads.
Subscription(i, st, pl, pu, be) ==
    [id |-> i, saasSubscriptionStatus |-> st, planId |-> pl.planId,
     quantity |-> pl.quantity, purchaser |-> pu, beneficiary |-> be]

Subscriptions ==
    {Subscription(i, st, pl, pu, be) :
        i \in SubscriptionIds, st \in FetchedStatuses, pl \in Plans,
        pu \in Purchasers, be \in Beneficiaries}

NoPrincipal == Principal("", "", "")
NoSubscription ==
    [id |-> "", saasSubscriptionStatus |-> "", planId |-> "", quantity |-> 0,
     purchaser |-> NoPrincipal, beneficiary |-> NoPrincipal]

\* AddSubscription: the body of the marketplace's resolve response.
Responses ==
    {[has |-> TRUE, subscription |-> s] : s \in Subscriptions}
        \cup {[has |-> FALSE, subscription |-> NoSubscription]}

\* With two requests in flight the marketplace serves one plan, one purchaser
\* address and a beneficiary who is the purchaser or a user of the other
\* tenant; with one request at a time, every response.
ConcurrentResponses ==
    {r \in Responses :
        /\ r.subscription.planId \in {"", "p1"}
        /\ r.subscription.purchaser.emailId \in {"", "e1"}
        /\ r.subscription.beneficiary \in
              {NoPrincipal, Principal("e1", "u1", "t1"),
               Principal("e2", "u2", "t2")}}

Served(c) == IF c = 1 THEN Responses ELSE ConcurrentResponses

\* The subscription an unsubscribe request carries.
RemoveInputs ==
    {Subscription(i, Subscribed, pl, Principal("e1", "u1", t),
                  Principal("e1", "u1", t)) :
        i \in SubscriptionIds, pl \in {[planId |-> "p1", quantity |-> 5]},
        t \in Tenants}

\* A field the request does not carry (undefined).
Absent == "undefined"

\* Unsubscribe requests without subscription.id, or without purchaser.tenantId.
MalformedRemoveInputs ==
    {Subscription(Absent, Subscribed, [planId |-> "p1", quantity |-> 5],
                  Principal("e1", "u1", "t1"), Principal("e1", "u1", "t1")),
     Subscription("s1", Subscribed, [planId |-> "p1", quantity |-> 5],
                  Principal("e1", "u1", Absent), Principal("e1", "u1", Absent))}

\* The Message field of the activation response.
ActivationMessages == {"", "error"}


(***************************************************************************)
(* Organization and User stores (BaseRepository): findOne, find and        *)
(* findOneAndUpdate with upsert, each atomic per document.                 *)
(***************************************************************************)
NoOrganization == [exists |-> FALSE, subscriptions |-> <<>>]

\* A stored document matches a filter when it agrees on the filter's fields.
Matches(doc, filter) == \A f \in DOMAIN filter : doc[f] = filter[f]

\* A patch overwrites the fields it names and keeps the others.
ApplyPatch(doc, patch) ==
    [f \in DOMAIN doc |-> IF f \in DOMAIN patch THEN patch[f] ELSE doc[f]]

\* find(filter): the _ids of the matching documents, in store order.
Find(us, filter) ==
    SelectSeq([i \in 1..Len(us) |-> i], LAMBDA i : Matches(us[i], filter))

NewUser ==
    [userId |-> "", tenantId |-> "", upn |-> "", role |-> "", license |-> "",
     subscriptionId |-> ""]

\* findOneAndUpdate(filter, patch): patch the first match, or insert the
\* filter's fields with the patch applied.
FindOneAndUpdate(us, filter, patch) ==
    LET hits == Find(us, filter)
    IN  IF hits # <<>>
        THEN [us EXCEPT ![hits[1]] = ApplyPatch(us[hits[1]], patch)]
        ELSE Append(us, ApplyPatch(ApplyPatch(NewUser, filter), patch))

\* findOneAndUpdate({_id}, patch) on the User store.
UpdateById(us, id, patch) ==
    IF id \in 1..Len(us)
    THEN [us EXCEPT ![id] = ApplyPatch(us[id], patch)]
    ELSE us

\* findOne({tenantId}) on the Organization store, as the in-memory document.
FindOrganization(os, t) ==
    IF t \in DOMAIN os
    THEN [tenantId |-> t, exists |-> os[t].exists,
          subscriptions |-> os[t].subscriptions]
    ELSE [tenantId |-> t, exists |-> FALSE, subscriptions |-> <<>>]

(***************************************************************************)
(* SubscriptionService: the synchronous parts                              *)
(***************************************************************************)
isSubscriptionActiveNever(subscriptionRes) == FALSE

isSubscriptionActive(subscriptionRes) ==
    subscriptionRes.saasSubscriptionStatus = Subscribed

\* callActivateSubscriptionApi throws on a non-empty Message.
ActivationRejectedNever(message) == FALSE

ActivationRejected(message) == message # ""

\* organization?.subscriptions?.find(s => s.id === subscriptionRes.id):
\* the first entry with the id, as a sequence of zero or one entry.
getOrganizationSubscriptionNone(organization, subscriptionRes) == <<>>

getOrganizationSubscription(organization, subscriptionRes) ==
    LET hits == SelectSeq(organization.subscriptions,
                          LAMBDA s : s.id = subscriptionRes.id)
    IN  IF hits = <<>> THEN <<>> ELSE <<hits[1]>>

\* organization.subscriptions.filter(s => s.id !== dbSubscription.id)
FilterOutKeepAll(subscriptions, id) == subscriptions

FilterOut(subscriptions, id) ==
    SelectSeq(subscriptions, LAMBDA s : s.id # id)

\* dbSubscription.saasSubscriptionStatus = Unsubscribed
MarkUnsubscribedNot(dbSubscription) == dbSubscription

MarkUnsubscribed(dbSubscription) ==
    [dbSubscription EXCEPT !.saasSubscriptionStatus = Unsubscribed]

\* updateOrganizationSubscriptions: the list it persists.
AppendSubscription(organization, subscriptionRes) ==
    Append(organization.subscriptions, subscriptionRes)

isPurchaserIsBeneficiary(subscription) ==
    subscription.purchaser.objectId = subscription.beneficiary.objectId

OwnerQuery(principal) ==
    [userId |-> principal.objectId, tenantId |-> principal.tenantId,
     upn |-> principal.emailId]

prepareFindOwnerQueryBoth(same, subscription) ==
    <<OwnerQuery(subscription.purchaser), OwnerQuery(subscription.beneficiary)>>

prepareFindOwnerQuery(same, subscription) ==
    IF same
    THEN <<OwnerQuery(subscription.purchaser)>>
    ELSE <<OwnerQuery(subscription.purchaser),
           OwnerQuery(subscription.beneficiary)>>

OwnerUserDataStale(userQuery, subscription) ==
    [userId |-> userQuery.userId, tenantId |-> userQuery.tenantId,
     upn |-> userQuery.upn, role |-> Member, license |-> "",
     subscriptionId |-> ""]

\* userData of findOwnerOrCreateUser
OwnerUserData(userQuery, subscription) ==
    LET isSubscribe == subscription.saasSubscriptionStatus = Subscribed
    IN  [userId |-> userQuery.userId, tenantId |-> userQuery.tenantId,
         upn |-> userQuery.upn,
         role |-> IF isSubscribe THEN Admin ELSE Member,
         license |-> IF isSubscribe THEN subscription.planId ELSE "",
         subscriptionId |-> IF isSubscribe THEN subscription.id ELSE ""]

defaultUserSubscription ==
    [role |-> Member, subscriptionId |-> "", license |-> "Free"]

\* removeSubscription awaits its two parts in this order.
removeSubscriptionStepsSwapped == <<"organization", "users">>

removeSubscriptionSteps == <<"users", "organization">>

(***************************************************************************)
(* Invocations                                                             *)
(***************************************************************************)
NoDocument == [tenantId |-> "", exists |-> FALSE, subscriptions |-> <<>>]

\* The two stores as an invocation found them when it started.
NoSnap == [orgs |-> [t \in Tenants |-> NoOrganization], users |-> <<>>]

\* It is recorded for invocations that run one at a time, whose effect can be
\* told from the stores before and after.
Snapshot(c, os, us) == IF c = 1 THEN [orgs |-> os, users |-> us] ELSE NoSnap

Idle ==
    [op |-> "none", pc |-> "idle", sub |-> NoSubscription, fetched |-> "",
     org |-> NoDocument, found |-> <<>>, idx |-> 0, step |-> 0,
     nFetch |-> 0, nActivate |-> 0, nOrgWrite |-> 0, upserts |-> <<>>,
     writes |-> 0, message |-> "", at |-> "", bound |-> {}, has |-> FALSE,
     reads |-> 0, nPut |-> 0, snap |-> NoSnap, stopped |-> "",
     retryOf |-> NoSubscription, retryAfter |-> ""]

Ended == {"returned", "threw", "crashed"}
Awaiting ==
    {"auth", "fetch", "activate", "getOrg", "putOrg", "owner",
     "findUsers", "downgrade", "findOrg", "flagOrg"}

\* The owner queries of a resolve, in the order the loop issues them.
OwnerQueries(subscription) ==
    prepareFindOwnerQuery(isPurchaserIsBeneficiary(subscription), subscription)

LicenseFields(u) ==
    [role |-> u.role, license |-> u.license, subscriptionId |-> u.subscriptionId]

\* The license-bearing fields of the User records each owner query matches.
OwnerFields(us, subscription) ==
    LET q == OwnerQueries(subscription)
    IN  [k \in 1..Len(q) |->
            {LicenseFields(us[i]) : i \in {j \in 1..Len(us) : Matches(us[j], q[k])}}]

NoPrev == [op |-> "none", pc |-> "idle", sub |-> NoSubscription, owners |-> <<>>]

\* What an ended invocation leaves behind for the next one to be compared with.
Outcome(i, us) ==
    IF i.pc = "returned" /\ i.op = "resolve" /\ i.sub.id # ""
    THEN [op |-> i.op, pc |-> i.pc, sub |-> i.sub,
          owners |-> OwnerFields(us, i.sub)]
    ELSE NoPrev

\* A function run of an HTTP trigger: the request's fields it reads, its
\* position, context.res.status (0 while unset) and the controller calls issued.
NoRequest ==
    [fn |-> "none", pc |-> "idle", isValidRequest |-> TRUE, action |-> "",
     token |-> FALSE, tid |-> FALSE, status |-> 0,
     nUnsubscribe |-> 0, nResolve |-> 0, nGetLicense |-> 0]

CanStart(p) ==
    /\ calls < MaxCalls
    /\ p <= concurrency
    /\ inv[p].pc \in Ended \cup {"idle"}

FirstPc(part) == IF part = "users" THEN "findUsers" ELSE "findOrg"

\* The invocation after one part of removeSubscription has been awaited.
AfterPart(i) ==
    IF i.step < Len(removeSubscriptionSteps)
    THEN [i EXCEPT !.step = @ + 1,
                   !.pc = FirstPc(removeSubscriptionSteps[i.step + 1])]
    ELSE [i EXCEPT !.pc = "returned"]

Init ==
    /\ orgs = [t \in Tenants |-> NoOrganization]
    /\ users = <<>>
    /\ inv = [p \in Tasks |-> Idle]
    /\ calls = 0
    /\ concurrency = 1
    /\ prev = NoPrev
    /\ http = [p \in Tasks |-> NoRequest]

InitConcurrent ==
    /\ orgs = [t \in Tenants |-> NoOrganization]
    /\ users = <<>>
    /\ inv = [p \in Tasks |-> Idle]
    /\ calls = 0
    /\ concurrency = 2
    /\ prev = NoPrev
    /\ http = [p \in Tasks |-> NoRequest]

(***************************************************************************)
(* resolveSubscription                                                     *)
(***************************************************************************)
StartResolve(p) ==
    /\ CanStart(p)
    /\ inv' = [inv EXCEPT ![p] =
                  [Idle EXCEPT !.op = "resolve", !.pc = "auth",
                               !.snap = Snapshot(concurrency, orgs, users)]]
    /\ calls' = calls + 1
    /\ prev' = Outcome(inv[p], users)
    /\ UNCHANGED <<orgs, users, concurrency, http>>

\* Two responses to the same token: the same subscription, whatever its status.
SameToken(a, b) ==
    [a EXCEPT !.saasSubscriptionStatus = ""] = [b EXCEPT !.saasSubscriptionStatus = ""]

\* The caller invokes resolveSubscription again with the token of an
\* invocation that threw or died; the first attempt's starting point is kept.
RetryResolve(p) ==
    /\ CanStart(p)
    /\ inv[p].op = "resolve"
    /\ inv[p].pc \in {"threw", "crashed"}
    /\ inv[p].sub.id # "" \/ inv[p].retryOf.id # ""
    /\ inv' = [inv EXCEPT ![p] =
                  [Idle EXCEPT !.op = "resolve", !.pc = "auth",
                               !.snap = inv[p].snap,
                               !.retryOf = IF inv[p].retryOf.id # ""
                                           THEN inv[p].retryOf ELSE inv[p].sub,
                               !.retryAfter = IF inv[p].retryOf.id # ""
                                              THEN inv[p].retryAfter
                                              ELSE inv[p].stopped]]
    /\ calls' = calls + 1
    /\ prev' = Outcome(inv[p], users)
    /\ UNCHANGED <<orgs, users, concurrency, http>>

\* getAppAuthenticationToken; without an access_token the body is skipped
\* and the method returns subscriptionRes?.subscription, which is undefined.
Authenticate(p) ==
    /\ inv[p].pc = "auth"
    /\ \E access_token \in BOOLEAN :
         inv' = [inv EXCEPT ![p].pc =
                    IF access_token THEN "fetch" ELSE "returned"]
    /\ UNCHANGED <<orgs, users, calls, concurrency, prev, http>>

\* activateSubscription(subscriptionRes.subscription) reads
\* saasSubscriptionStatus of its argument: a TypeError when the response
\* carries no subscription.
activateSubscriptionThrowsNever(r) == FALSE

activateSubscriptionThrows(r) == ~r.has

\* getSubscriptionDetails, then activateSubscription up to its await.
FetchSubscription(p) ==
    /\ inv[p].pc = "fetch"
    /\ \E r \in Served(concurrency) :
         /\ inv[p].retryOf.id # "" /\ r.has =>
                SameToken(r.subscription, inv[p].retryOf)
         /\ inv' = [inv EXCEPT ![p] =
                    IF activateSubscriptionThrows(r)
                    THEN [@ EXCEPT !.nFetch = @ + 1, !.pc = "threw",
                                   !.at = "noSubscription"]
                    ELSE [@ EXCEPT !.nFetch = @ + 1,
                                   !.has = r.has,
                                   !.sub = r.subscription,
                                   !.fetched = r.subscription.saasSubscriptionStatus,
                                   !.pc = IF isSubscriptionActive(r.subscription)
                                          THEN "getOrg" ELSE "activate"]]
    /\ UNCHANGED <<orgs, users, calls, concurrency, prev, http>>

ActivatedStatusKept(saasSubscriptionStatus) == saasSubscriptionStatus

\* subscriptionRes.saasSubscriptionStatus after a successful activation call.
ActivatedStatus(saasSubscriptionStatus) == Subscribed

\* callActivateSubscriptionApi and the status assignment that follows it;
\* then if (subscriptionRes?.subscription) guards the store calls.
Activate(p) ==
    /\ inv[p].pc = "activate"
    /\ \E message \in ActivationMessages :
         inv' = [inv EXCEPT ![p] =
                    IF ActivationRejected(message)
                    THEN [@ EXCEPT !.nActivate = @ + 1, !.message = message,
                                   !.pc = "threw", !.at = "activate"]
                    ELSE [@ EXCEPT !.nActivate = @ + 1, !.message = message,
                                   !.sub.saasSubscriptionStatus =
                                       ActivatedStatus(@),
                                   !.pc = IF inv[p].has THEN "getOrg"
                                          ELSE "returned"]]
    /\ UNCHANGED <<orgs, users, calls, concurrency, prev, http>>

\* getOrCreateOrganization: upsert by purchaser.tenantId.
GetOrCreateOrganization(p) ==
    /\ inv[p].pc = "getOrg"
    /\ LET t == inv[p].sub.purchaser.tenantId
           os == [orgs EXCEPT ![t].exists = TRUE]
       IN  /\ orgs' = os
           /\ inv' = [inv EXCEPT ![p].org = FindOrganization(os, t),
                                 ![p].writes = @ + 1,
                                 ![p].pc = "putOrg"]
    /\ UNCHANGED <<users, calls, concurrency, prev, http>>

\* The list resolveSubscription persists: the stored entry with the id is
\* filtered out, the resolved subscription appended.
ResolvedListMerged(organization, subscriptionRes) ==
    LET dbSubscription == getOrganizationSubscription(organization, subscriptionRes)
    IN  IF dbSubscription # <<>>
        THEN Append(FilterOut(organization.subscriptions, dbSubscription[1].id),
                    [subscriptionRes EXCEPT !.planId = dbSubscription[1].planId,
                                            !.quantity = dbSubscription[1].quantity])
        ELSE AppendSubscription(organization, subscriptionRes)

ResolvedList(organization, subscriptionRes) ==
    LET dbSubscription == getOrganizationSubscription(organization, subscriptionRes)
        kept == IF dbSubscription # <<>>
                THEN FilterOut(organization.subscriptions, dbSubscription[1].id)
                ELSE organization.subscriptions
    IN  AppendSubscription([organization EXCEPT !.subscriptions = kept],
                           subscriptionRes)

\* updateOrganizationSubscriptions in resolveSubscription.
PutOrganization(p) ==
    /\ inv[p].pc = "putOrg"
    /\ LET i == inv[p]
           list == ResolvedList(i.org, i.sub)
       IN  /\ orgs' = [orgs EXCEPT ![i.org.tenantId].subscriptions = list]
           /\ inv' = [inv EXCEPT ![p].org.subscriptions = list,
                                 ![p].nOrgWrite = @ + 1,
                                 ![p].nPut = @ + 1,
                                 ![p].writes = @ + 1,
                                 ![p].idx = 1,
                                 ![p].pc = "owner"]
    /\ UNCHANGED <<users, calls, concurrency, prev, http>>

\* One round of the loop of findOwnerOrCreateUser.
UpsertOwner(p) ==
    /\ inv[p].pc = "owner"
    /\ LET i == inv[p]
           usersQueries == OwnerQueries(i.sub)
           userQuery == usersQueries[i.idx]
       IN  /\ users' = FindOneAndUpdate(users, userQuery,
                                        OwnerUserData(userQuery, i.sub))
           /\ inv' = [inv EXCEPT ![p].upserts = Append(@, userQuery),
                                 ![p].writes = @ + 1,
                                 ![p].idx = @ + 1,
                                 ![p].pc = IF i.idx < Len(usersQueries)
                                           THEN "owner" ELSE "returned"]
    /\ UNCHANGED <<orgs, calls, concurrency, prev, http>>

(***************************************************************************)
(* removeSubscription                                                      *)
(***************************************************************************)
\* The _ids of the Users whose subscriptionId is the given id.
BoundTo(us, id) == {k \in 1..Len(us) : us[k].subscriptionId = id}

StartRemove(p) ==
    /\ CanStart(p)
    /\ \E subscription \in RemoveInputs \cup MalformedRemoveInputs :
         inv' = [inv EXCEPT ![p] =
                    [Idle EXCEPT !.op = "remove", !.sub = subscription,
                                 !.bound = BoundTo(users, subscription.id),
                                 !.step = 1,
                                 !.snap = Snapshot(concurrency, orgs, users),
                                 !.pc = FirstPc(removeSubscriptionSteps[1])]]
    /\ calls' = calls + 1
    /\ prev' = Outcome(inv[p], users)
    /\ UNCHANGED <<orgs, users, concurrency, http>>

SubscriptionUsersFilterTenant(tenantId, subscriptionId) ==
    [tenantId |-> tenantId]

\* The filter of the find in removeAllSubscriptionUsers.
SubscriptionUsersFilter(tenantId, subscriptionId) ==
    [tenantId |-> tenantId, subscriptionId |-> subscriptionId]

\* removeAllSubscriptionUsers: the find.
FindUsers(p) ==
    /\ inv[p].pc = "findUsers"
    /\ LET i == inv[p]
           hits == Find(users, SubscriptionUsersFilter(i.sub.purchaser.tenantId,
                                                       i.sub.id))
       IN  inv' = [inv EXCEPT ![p] =
                      IF hits = <<>>
                      THEN AfterPart([i EXCEPT !.found = hits, !.idx = 1,
                                               !.reads = @ + 1])
                      ELSE [i EXCEPT !.found = hits, !.idx = 1,
                                     !.reads = @ + 1, !.pc = "downgrade"]]
    /\ UNCHANGED <<orgs, users, calls, concurrency, prev, http>>

\* removeAllSubscriptionUsers: one round of the loop.
DowngradeUser(p) ==
    /\ inv[p].pc = "downgrade"
    /\ LET i == inv[p]
       IN  /\ users' = UpdateById(users, i.found[i.idx], defaultUserSubscription)
           /\ inv' = [inv EXCEPT ![p] =
                         IF i.idx < Len(i.found)
                         THEN [i EXCEPT !.idx = @ + 1, !.writes = @ + 1]
                         ELSE AfterPart([i EXCEPT !.idx = @ + 1,
                                                  !.writes = @ + 1])]
    /\ UNCHANGED <<orgs, calls, concurrency, prev, http>>

SubscriptionUnknownNever(organization, subscription) == FALSE

\* No organization document, or no entry with the id in its list.
SubscriptionUnknown(organization, subscription) ==
    \/ ~organization.exists
    \/ getOrganizationSubscription(organization, subscription) = <<>>

\* updateSubscriptionStatus: findOne and getOrganizationSubscription; a missing
\* organization or a missing entry is a TypeError.
FindOrg(p) ==
    /\ inv[p].pc = "findOrg"
    /\ LET i == inv[p]
           organization == FindOrganization(orgs, i.sub.purchaser.tenantId)
       IN  inv' = [inv EXCEPT ![p] =
                      IF SubscriptionUnknown(organization, i.sub)
                      THEN [i EXCEPT !.reads = @ + 1, !.pc = "threw",
                                     !.at = "findOrg"]
                      ELSE [i EXCEPT !.reads = @ + 1, !.org = organization,
                                     !.pc = "flagOrg"]]
    /\ UNCHANGED <<orgs, users, calls, concurrency, prev, http>>

UnsubscribedListAlone(organization, subscription) ==
    <<MarkUnsubscribed(getOrganizationSubscription(organization, subscription)[1])>>

\* The list updateSubscriptionStatus persists.
UnsubscribedList(organization, subscription) ==
    LET dbSubscription == MarkUnsubscribed(
            getOrganizationSubscription(organization, subscription)[1])
        kept == FilterOut(organization.subscriptions, dbSubscription.id)
    IN  AppendSubscription([organization EXCEPT !.subscriptions = kept],
                           dbSubscription)

\* updateSubscriptionStatus: updateOrganizationSubscriptions.
FlagOrg(p) ==
    /\ inv[p].pc = "flagOrg"
    /\ LET i == inv[p]
           list == UnsubscribedList(i.org, i.sub)
       IN  /\ orgs' = [orgs EXCEPT ![i.org.tenantId].subscriptions = list]
           /\ inv' = [inv EXCEPT ![p] =
                         AfterPart([i EXCEPT !.org.subscriptions = list,
                                             !.nOrgWrite = @ + 1,
                                             !.nPut = @ + 1,
                                             !.writes = @ + 1])]
    /\ UNCHANGED <<users, calls, concurrency, prev, http>>

(***************************************************************************)
(* Failures                                                                *)
(***************************************************************************)
\* The call an invocation awaits has been issued when it throws.
Issued(i) ==
    [i EXCEPT !.nFetch = IF i.pc = "fetch" THEN @ + 1 ELSE @,
              !.nActivate = IF i.pc = "activate" THEN @ + 1 ELSE @,
              !.nPut = IF i.pc \in {"putOrg", "flagOrg"} THEN @ + 1 ELSE @,
              !.reads = IF i.pc \in {"findUsers", "findOrg"} THEN @ + 1 ELSE @]

\* catch (error) { log; throw error }: the invocation ends, nothing is retried.
OnErrorRetry(pc) == pc

OnError(pc) == "threw"

\* The remote call an invocation awaits throws; the error is logged and rethrown.
Fail(p) ==
    /\ inv[p].pc \in Awaiting
    /\ inv' = [inv EXCEPT ![p] =
                  [Issued(inv[p]) EXCEPT !.pc = OnError(inv[p].pc),
                                         !.at = inv[p].pc,
                                         !.stopped = inv[p].pc]]
    /\ UNCHANGED <<orgs, users, calls, concurrency, prev, http>>

\* The host dies while the invocation awaits: its memory is lost, the stores
\* stay as they are.  What the request was for (the subscription its token
\* names, the stores it started from) is kept for comparison with a retry.
Crash(p) ==
    /\ inv[p].pc \in Awaiting
    /\ inv' = [inv EXCEPT ![p] =
                  [Idle EXCEPT !.op = inv[p].op, !.pc = "crashed",
                               !.sub = inv[p].sub, !.snap = inv[p].snap,
                               !.stopped = inv[p].pc,
                               !.retryOf = inv[p].retryOf,
                               !.retryAfter = inv[p].retryAfter]]
    /\ UNCHANGED <<orgs, users, calls, concurrency, prev, http>>

Next ==
    \E p \in Tasks :
        \/ StartResolve(p)
        \/ RetryResolve(p)
        \/ Authenticate(p)
        \/ FetchSubscription(p)
        \/ Activate(p)
        \/ GetOrCreateOrganization(p)
        \/ PutOrganization(p)
        \/ UpsertOwner(p)
        \/ StartRemove(p)
        \/ FindUsers(p)
        \/ DowngradeUser(p)
        \/ FindOrg(p)
        \/ FlagOrg(p)
        \/ Fail(p)
        \/ Crash(p)

\* One request at a time.
Spec == Init /\ [][Next]_vars

\* Two requests in flight, their store operations interleaved.
SpecConcurrent == InitConcurrent /\ [][Next]_vars

(***************************************************************************)
(* The HTTP triggers test-subscription and organization_getLicense.  The   *)
(* controllers they call are taken by their outcome: the call returns or   *)
(* throws.                                                                 *)
(***************************************************************************)
Functions == {"test-subscription", "organization_getLicense"}
Actions == {"Unsubscribe", ""}

\* The host runs the function for a request.
Receive(p) ==
    /\ calls < MaxCalls
    /\ p <= concurrency
    /\ http[p].pc \in {"idle", "done", "rejected"}
    /\ \E fn \in Functions, action \in Actions, token \in BOOLEAN, tid \in BOOLEAN :
         /\ fn = "test-subscription" => ~tid
         /\ fn = "organization_getLicense" => action = "" /\ ~token
         /\ http' = [http EXCEPT ![p] =
                       [NoRequest EXCEPT !.fn = fn, !.pc = "initApp",
                                         !.action = action, !.token = token,
                                         !.tid = tid]]
    /\ calls' = calls + 1
    /\ UNCHANGED <<orgs, users, inv, concurrency, prev>>

\* The status an unauthenticated request is answered with.
RejectedStatus(isValidRequest, status) ==
    IF ~isValidRequest THEN 500 ELSE status

\* test-subscription, from a point between two awaits to the next await or
\* to the end of the function.
SubscriptionTriggerFrom(h, position) ==
    IF position = "initApp" /\ h.action = "Unsubscribe"
    THEN [h EXCEPT !.pc = "unsubscribe"]
    ELSE IF position \in {"initApp", "unsubscribe"} /\ h.token
    THEN [h EXCEPT !.pc = "resolveSubscription"]
    ELSE [h EXCEPT !.status = 200, !.pc = "done"]

\* organization_getLicense after initApp.
LicenseTriggerFrom(h) ==
    IF h.tid
    THEN [h EXCEPT !.pc = "getLicense"]
    ELSE [h EXCEPT !.status = 404, !.pc = "done"]

\* await AppLoader.initApp(req) and the code up to the next await.
InitApp(p) ==
    /\ http[p].pc = "initApp"
    /\ \E isValidRequest \in BOOLEAN :
         LET h == [http[p] EXCEPT
                      !.isValidRequest = isValidRequest,
                      !.status = RejectedStatus(isValidRequest, @)]
         IN  http' = [http EXCEPT ![p] =
                         IF h.fn = "test-subscription"
                         THEN SubscriptionTriggerFrom(h, "initApp")
                         ELSE LicenseTriggerFrom(h)]
    /\ UNCHANGED <<orgs, users, inv, calls, concurrency, prev>>

\* await subscriptionController.unsubscribe(req.body.subscription)
Unsubscribe(p) ==
    /\ http[p].pc = "unsubscribe"
    /\ \E throws \in BOOLEAN :
         LET h == [http[p] EXCEPT !.nUnsubscribe = @ + 1]
         IN  http' = [http EXCEPT ![p] =
                         IF throws
                         THEN [h EXCEPT !.pc = "rejected"]
                         ELSE SubscriptionTriggerFrom(h, "unsubscribe")]
    /\ UNCHANGED <<orgs, users, inv, calls, concurrency, prev>>

\* await subscriptionController.resolveSubscription(req.query.token)
ResolveToken(p) ==
    /\ http[p].pc = "resolveSubscription"
    /\ \E throws \in BOOLEAN :
         LET h == [http[p] EXCEPT !.nResolve = @ + 1]
         IN  http' = [http EXCEPT ![p] =
                         IF throws
                         THEN [h EXCEPT !.pc = "rejected"]
                         ELSE SubscriptionTriggerFrom(h, "resolveSubscription")]
    /\ UNCHANGED <<orgs, users, inv, calls, concurrency, prev>>

\* await organizationController.getLicense(req.query.tid) in its try block
GetLicense(p) ==
    /\ http[p].pc = "getLicense"
    /\ \E throws \in BOOLEAN :
         http' = [http EXCEPT ![p] =
                     [@ EXCEPT !.nGetLicense = @ + 1,
                               !.status = IF throws THEN 500 ELSE 200,
                               !.pc = "done"]]
    /\ UNCHANGED <<orgs, users, inv, calls, concurrency, prev>>

NextTrigger ==
    \E p \in Tasks :
        \/ Receive(p)
        \/ InitApp(p)
        \/ Unsubscribe(p)
        \/ ResolveToken(p)
        \/ GetLicense(p)

\* The triggers serving two requests at a time.
SpecTrigger == InitConcurrent /\ [][NextTrigger]_vars

(***************************************************************************)
(* Properties                                                              *)
(***************************************************************************)
\* The entries of a subscription list that carry the id.
Entries(subscriptions, id) == SelectSeq(subscriptions, LAMBDA s : s.id = id)

\* The stored list of the organization an invocation works on.
StoredList(i) == FindOrganization(orgs, i.sub.purchaser.tenantId).subscriptions

ResolveReturned(i) == i.op = "resolve" /\ i.pc = "returned" /\ i.sub.id # ""

RemoveReturned(i) == i.op = "remove" /\ i.pc = "returned"

C2_NoDoubleActivation ==
    \A p \in Tasks :
        (inv[p].op = "resolve" /\ inv[p].fetched = Subscribed) =>
            inv[p].nActivate = 0

\* A resolve of a subscription fetched as Subscribed has run to its end.
C2_Witness ==
    \E p \in Tasks :
        /\ ResolveReturned(inv[p])
        /\ inv[p].fetched = Subscribed
        /\ inv[p].nOrgWrite = 1

\* C3: when removeSubscription(S) has completed, every User that was bound to
\* S.id before it is Member with subscriptionId "" and license "Free", and no
\* User references S.id.
C3_UnsubscribeClearsLicenses ==
    \A p \in Tasks :
        LET i == inv[p]
        IN  RemoveReturned(i) =>
                /\ \A k \in i.bound :
                      LicenseFields(users[k]) = defaultUserSubscription
                /\ BoundTo(users, i.sub.id) = {}

\* C4: when removeSubscription(S) has completed, the organization's list holds
\* exactly one entry with S.id, and it is Unsubscribed.
C4_RetainedFlagged ==
    \A p \in Tasks :
        LET i == inv[p]
            hits == Entries(StoredList(i), i.sub.id)
        IN  RemoveReturned(i) =>
                /\ Len(hits) = 1
                /\ hits[1].saasSubscriptionStatus = Unsubscribed

\* An unsubscribe that downgraded a User and wrote the organization has
\* completed.
C4_Witness ==
    \E p \in Tasks :
        /\ RemoveReturned(inv[p])
        /\ inv[p].nOrgWrite = 1
        /\ Len(inv[p].found) >= 1

\* C5: a resolve that returns a subscription has issued one User upsert, keyed
\* by the purchaser, when purchaser and beneficiary have the same objectId, and
\* two, keyed by the purchaser and by the beneficiary, when they differ.
C5_OwnerSet ==
    \A p \in Tasks :
        LET i == inv[p]
            pu == i.sub.purchaser
            be == i.sub.beneficiary
            Keyed(q, who) == q.userId = who.objectId /\ q.tenantId = who.tenantId
        IN  ResolveReturned(i) =>
                IF pu.objectId = be.objectId
                THEN Len(i.upserts) = 1 /\ Keyed(i.upserts[1], pu)
                ELSE /\ Len(i.upserts) = 2
                     /\ Keyed(i.upserts[1], pu)
                     /\ Keyed(i.upserts[2], be)

\* A resolve with distinct purchaser and beneficiary has returned, after one
\* where they were the same person.
C5_Witness ==
    /\ ResolveReturned(inv[1])
    /\ inv[1].sub.purchaser.objectId # inv[1].sub.beneficiary.objectId
    /\ prev.op = "resolve"
    /\ prev.sub.purchaser.objectId = prev.sub.beneficiary.objectId

\* C6: a resolve whose activation call failed (the call threw, or the response
\* carried a Message) has thrown, its subscription is not marked Subscribed and
\* it has written neither store.
C6_ActivationFailureAborts ==
    \A p \in Tasks :
        LET i == inv[p]
        IN  (i.op = "resolve" /\ (i.message # "" \/ i.at = "activate")) =>
                /\ i.pc = "threw"
                /\ i.sub.saasSubscriptionStatus # Subscribed
                /\ i.writes = 0
                /\ i.nOrgWrite = 0
                /\ i.upserts = <<>>

\* The activation response carried a Message, the stores holding an earlier
\* resolve's writes.
C6_Witness ==
    \E p \in Tasks :
        /\ inv[p].message # ""
        /\ inv[p].pc = "threw"
        /\ Len(users) >= 1

\* C7: every User that is Admin with a subscriptionId references a
\* subscription some organization lists as Subscribed.
C7_LicenseConsistency ==
    \A k \in 1..Len(users) :
        (users[k].role = Admin /\ users[k].subscriptionId # "") =>
            \E t \in Tenants :
                \E n \in 1..Len(orgs[t].subscriptions) :
                    /\ orgs[t].subscriptions[n].id = users[k].subscriptionId
                    /\ orgs[t].subscriptions[n].saasSubscriptionStatus = Subscribed

\* C8: once a removeSubscription(S) has written the organization, no User it
\* found in step 1 still has subscriptionId S.id; while one does, the
\* organization has not been written by it.
C8_DowngradeBeforeFlag ==
    \A p \in Tasks :
        LET i == inv[p]
        IN  (i.op = "remove" /\ i.nOrgWrite > 0) =>
                /\ i.pc \notin {"findUsers"}
                /\ \A k \in 1..Len(i.found) :
                      users[i.found[k]].subscriptionId # i.sub.id

\* The state a crash between the two parts leaves: the found Users downgraded,
\* S still Subscribed in the organization.
C8_Witness ==
    \E p \in Tasks :
        LET i == inv[p]
            hits == Entries(StoredList(i), i.sub.id)
        IN  /\ i.op = "remove"
            /\ i.pc = "findOrg"
            /\ Len(i.found) = 2
            /\ \A k \in 1..Len(i.found) : users[i.found[k]].subscriptionId = ""
            /\ Len(hits) = 1
            /\ hits[1].saasSubscriptionStatus = Subscribed

\* C9: no organization's stored list holds two entries with the same id.
C9_UniqueIds ==
    \A t \in Tenants :
        \A m, n \in 1..Len(orgs[t].subscriptions) :
            orgs[t].subscriptions[m].id = orgs[t].subscriptions[n].id => m = n

\* Two resolves of the same id, both having read the organization before
\* either wrote it, have both written it.
C9_Witness ==
    /\ inv[1].op = "resolve" /\ inv[2].op = "resolve"
    /\ inv[1].sub.id # "" /\ inv[1].sub.id = inv[2].sub.id
    /\ inv[1].nOrgWrite = 1 /\ inv[2].nOrgWrite = 1
    /\ Len(inv[1].org.subscriptions) = 1 /\ Len(inv[2].org.subscriptions) = 1
    /\ inv[1].fetched # inv[2].fetched

\* C10: a resolve that completes normally returns a Subscribed subscription,
\* with the organization written and the owners upserted.
C10_NoPartialSuccess ==
    \A p \in Tasks :
        LET i == inv[p]
        IN  (i.op = "resolve" /\ i.pc = "returned") =>
                /\ i.sub.id # ""
                /\ i.sub.saasSubscriptionStatus = Subscribed
                /\ i.nOrgWrite = 1
                /\ Len(i.upserts) = Len(OwnerQueries(i.sub))

Malformed(subscription) ==
    subscription.id = Absent \/ subscription.purchaser.tenantId = Absent

\* C12: a removeSubscription whose input lacks subscription.id or
\* purchaser.tenantId issues no store read and no store write, and does not
\* complete normally.
C12_InputValidation ==
    \A p \in Tasks :
        LET i == inv[p]
        IN  (i.op = "remove" /\ Malformed(i.sub)) =>
                /\ i.reads = 0
                /\ i.writes = 0
                /\ i.pc # "returned"

\* C13: when the update of the k-th User found by a removeSubscription fails,
\* the invocation has thrown, the k-1 Users before it are downgraded, the k-th
\* and those after it are as the invocation found them, and the organization
\* is as the invocation found it.
C13_PartialDowngrade ==
    \A p \in Tasks :
        LET i == inv[p]
        IN  (i.op = "remove" /\ i.at = "downgrade") =>
                /\ i.pc = "threw"
                /\ \A k \in 1..Len(i.found) :
                     users[i.found[k]] =
                        IF k < i.idx
                        THEN ApplyPatch(i.snap.users[i.found[k]],
                                        defaultUserSubscription)
                        ELSE i.snap.users[i.found[k]]
                /\ orgs = i.snap.orgs
                /\ i.nOrgWrite = 0

\* The update of the second of two found Users has failed.
C13_Witness ==
    /\ inv[1].op = "remove"
    /\ inv[1].at = "downgrade"
    /\ Len(inv[1].found) = 2
    /\ inv[1].idx = 2
    /\ users[inv[1].found[1]].role = Member
    /\ users[inv[1].found[2]].role = Admin

\* The User store after the owner upserts of one resolve, from query k on.
RECURSIVE UpsertedFrom(_, _, _)
UpsertedFrom(us, subscription, k) ==
    LET usersQueries == OwnerQueries(subscription)
    IN  IF k > Len(usersQueries)
        THEN us
        ELSE UpsertedFrom(FindOneAndUpdate(us, usersQueries[k],
                              OwnerUserData(usersQueries[k], subscription)),
                          subscription, k + 1)

\* The two stores after one resolve of the subscription that nothing interrupts.
CleanResolve(snap, subscription) ==
    LET t == subscription.purchaser.tenantId
        os == [snap.orgs EXCEPT ![t].exists = TRUE]
        list == ResolvedList(FindOrganization(os, t), subscription)
    IN  [orgs |-> [os EXCEPT ![t].subscriptions = list],
         users |-> UpsertedFrom(snap.users, subscription, 1)]

RetryReturned(i) ==
    /\ i.op = "resolve"
    /\ i.retryOf.id # ""
    /\ i.pc = "returned"
    /\ i.sub.id # ""

\* C14: when a resolve that threw or died after some of its steps is invoked
\* again with the same token and returns, the organization list and the Users
\* are what one uninterrupted resolve would have left from the first attempt's
\* starting point, the list holding one entry with the id.
C14_RetryConverges ==
    \A p \in Tasks :
        LET i == inv[p]
        IN  RetryReturned(i) =>
                /\ orgs = CleanResolve(i.snap, i.sub).orgs
                /\ users = CleanResolve(i.snap, i.sub).users
                /\ Len(Entries(StoredList(i), i.sub.id)) = 1

\* A retry has returned after an attempt that had activated the subscription,
\* written the organization list and stopped at the second of two owners.
C14_Witness ==
    /\ RetryReturned(inv[1])
    /\ inv[1].retryAfter = "owner"
    /\ Len(inv[1].upserts) = 2
    /\ inv[1].fetched = Subscribed
    /\ inv[1].nActivate = 0
    /\ Len(users) = Len(inv[1].snap.users) + 2

\* C15: the User store holds at most one record per (tenantId, userId).
C15_OneUserPerKey ==
    \A m, n \in 1..Len(users) :
        (users[m].tenantId = users[n].tenantId /\ users[m].userId = users[n].userId)
            => m = n

\* C16: after a resolve that returns a subscription, the organization's only
\* entry with the resolved id is the subscription as fetched, with status
\* Subscribed; nothing of an entry stored before under that id is left.
C16_RefreshNotMerge ==
    \A p \in Tasks :
        LET i == inv[p]
        IN  ResolveReturned(i) =>
                /\ Entries(StoredList(i), i.sub.id) = <<i.sub>>
                /\ i.sub.saasSubscriptionStatus = Subscribed

\* A resolve has returned whose organization held an entry with the same id
\* and another plan and quantity when it started.
C16_Witness ==
    /\ ResolveReturned(inv[1])
    /\ LET before == Entries(inv[1].snap.orgs[inv[1].sub.purchaser.tenantId]
                                 .subscriptions, inv[1].sub.id)
       IN  /\ Len(before) = 1
           /\ before[1].planId # inv[1].sub.planId
           /\ before[1].quantity # inv[1].sub.quantity

\* The license-bearing fields an owner of the subscription is to carry.
ExpectedOwner(subscription) ==
    IF subscription.saasSubscriptionStatus = Subscribed
    THEN [role |-> Admin, license |-> subscription.planId,
          subscriptionId |-> subscription.id]
    ELSE [role |-> Member, license |-> "", subscriptionId |-> ""]

\* C17: every owner a resolve has upserted is stored as Admin with the plan
\* and the subscription id when the subscription is Subscribed at that point,
\* as Member with empty license and subscriptionId otherwise; a subscription
\* fetched as PendingFulfillmentStart and activated leaves its owners Admin with
\* license planId and subscriptionId id.
C17_OwnerFieldAssignment ==
    \A p \in Tasks :
        LET i == inv[p]
        IN  i.op = "resolve" =>
                /\ \A k \in 1..Len(i.upserts) :
                     /\ \E n \in 1..Len(users) : Matches(users[n], i.upserts[k])
                     /\ \A n \in 1..Len(users) :
                          Matches(users[n], i.upserts[k]) =>
                              LicenseFields(users[n]) = ExpectedOwner(i.sub)
                /\ (i.fetched = PendingFulfillmentStart /\ i.upserts # <<>>) =>
                       /\ i.nActivate = 1
                       /\ ExpectedOwner(i.sub) =
                              [role |-> Admin, license |-> i.sub.planId,
                               subscriptionId |-> i.sub.id]

\* A resolve that fetched PendingFulfillmentStart has activated the
\* subscription and upserted its two owners.
C17_Witness ==
    /\ ResolveReturned(inv[1])
    /\ inv[1].fetched = PendingFulfillmentStart
    /\ inv[1].nActivate = 1
    /\ Len(inv[1].upserts) = 2
    /\ \E n \in 1..Len(users) :
         /\ Matches(users[n], inv[1].upserts[2])
         /\ users[n].role = Admin
         /\ users[n].license = inv[1].sub.planId

\* C18: one resolve issues at most one subscription-fetch call, at most one
\* activation call and at most one write of the organization's list, and an
\* invocation whose call failed has ended.
C18_FireOnce ==
    \A p \in Tasks :
        LET i == inv[p]
        IN  i.op = "resolve" =>
                /\ i.nFetch <= 1
                /\ i.nActivate <= 1
                /\ i.nPut <= 1
                /\ i.stopped # "" => i.pc \in Ended

\* A resolve has fetched, activated and issued its list write, which failed.
C18_Witness ==
    /\ inv[1].op = "resolve"
    /\ inv[1].pc = "threw"
    /\ inv[1].at = "putOrg"
    /\ inv[1].nFetch = 1
    /\ inv[1].nActivate = 1
    /\ inv[1].nPut = 1

\* C19: while and after a removeSubscription runs, every User has the userId,
\* tenantId and upn it had when the invocation started, no User is added or
\* removed, and every User whose subscriptionId is not the removed id or whose
\* tenantId is not the purchaser's is as it was.
C19_UnsubscribeFrame ==
    \A p \in Tasks :
        LET i == inv[p]
        IN  i.op = "remove" =>
                /\ Len(users) = Len(i.snap.users)
                /\ \A n \in 1..Len(i.snap.users) :
                     LET before == i.snap.users[n]
                     IN  /\ users[n].userId = before.userId
                         /\ users[n].tenantId = before.tenantId
                         /\ users[n].upn = before.upn
                         /\ (\/ before.subscriptionId # i.sub.id
                             \/ before.tenantId # i.sub.purchaser.tenantId) =>
                                users[n] = before

\* A removeSubscription has returned that downgraded one User and left alone
\* another one, an Admin of another tenant.
C19_Witness ==
    /\ RemoveReturned(inv[1])
    /\ Len(inv[1].found) = 1
    /\ users[inv[1].found[1]].role = Member
    /\ users[inv[1].found[1]].upn # ""
    /\ \E n \in 1..Len(users) :
         /\ users[n].tenantId # inv[1].sub.purchaser.tenantId
         /\ users[n].role = Admin

\* C20: a function run whose request is not valid calls neither
\* subscriptionController.unsubscribe nor resolveSubscription nor
\* organizationController.getLicense, and ends with response status 500.
C20_AuthenticatedCallersOnly ==
    \A p \in Tasks :
        LET h == http[p]
        IN  (h.pc \notin {"idle", "initApp"} /\ ~h.isValidRequest) =>
                /\ h.nUnsubscribe = 0
                /\ h.nResolve = 0
                /\ h.nGetLicense = 0
                /\ h.pc = "done" => h.status = 500

\* C21: when two resolves of two different subscription ids of one tenant have
\* both returned, the tenant's stored list holds an entry for each id.
C21_NoLostUpdate ==
    \A p, q \in Tasks :
        LET i == inv[p]
            j == inv[q]
        IN  (/\ ResolveReturned(i) /\ ResolveReturned(j)
             /\ i.sub.id # j.sub.id
             /\ i.sub.purchaser.tenantId = j.sub.purchaser.tenantId) =>
                /\ Entries(StoredList(i), i.sub.id) # <<>>
                /\ Entries(StoredList(i), j.sub.id) # <<>>

\* C22: every resolve that returns a subscription returns it Subscribed,
\* whatever status was fetched, and every owner it upserts is written with
\* role Admin and the plan as license, never as Member.
C22_ResolveEndsSubscribed ==
    \A p \in Tasks :
        LET i == inv[p]
        IN  i.op = "resolve" =>
                /\ ResolveReturned(i) => i.sub.saasSubscriptionStatus = Subscribed
                /\ (i.pc = "owner" \/ i.upserts # <<>>) =>
                       \A k \in 1..Len(OwnerQueries(i.sub)) :
                           LET userData == OwnerUserData(OwnerQueries(i.sub)[k], i.sub)
                           IN  /\ userData.role = Admin
                               /\ userData.license = i.sub.planId
                               /\ userData.subscriptionId = i.sub.id

\* A resolve that fetched PendingFulfillmentStart has returned after one
\* activation call and the upsert of its single owner.
C22_Witness ==
    /\ ResolveReturned(inv[1])
    /\ inv[1].fetched = PendingFulfillmentStart
    /\ inv[1].nActivate = 1
    /\ Len(inv[1].upserts) = 1
    /\ inv[1].sub.saasSubscriptionStatus = Subscribed

\* The stores as one resolve of subscription s2, bought by a user for
\* themselves, leaves them.
SeedSubscription ==
    Subscription("s2", Subscribed, [planId |-> "p1", quantity |-> 5],
                 Principal("e1", "u1", "t1"), Principal("e1", "u1", "t1"))

InitSeeded ==
    /\ orgs = CleanResolve(NoSnap, SeedSubscription).orgs
    /\ users = CleanResolve(NoSnap, SeedSubscription).users
    /\ inv = [p \in Tasks |-> Idle]
    /\ calls = 0
    /\ concurrency = 1
    /\ prev = NoPrev
    /\ http = [p \in Tasks |-> NoRequest]

\* One request at a time, on stores an earlier resolve has filled.
SpecSeeded == InitSeeded /\ [][Next]_vars

\* A stored subscription without its status.
Unflagged(s) == [s EXCEPT !.saasSubscriptionStatus = ""]

Ids(subscriptions) == {subscriptions[k].id : k \in 1..Len(subscriptions)}

\* C23: while and after a removeSubscription(S) runs, every organization's
\* entries whose id is not S.id are the ones it held when the invocation
\* started, the ids in each list are the same, and the entries with S.id
\* differ from the earlier ones in their status at most.
C23_UnsubscribeListFrame ==
    \A p \in Tasks :
        LET i == inv[p]
        IN  i.op = "remove" =>
                \A t \in Tenants :
                    LET now == orgs[t].subscriptions
                        before == i.snap.orgs[t].subscriptions
                    IN  /\ orgs[t].exists = i.snap.orgs[t].exists
                        /\ FilterOut(now, i.sub.id) = FilterOut(before, i.sub.id)
                        /\ Ids(now) = Ids(before)
                        /\ Len(now) = Len(before)
                        /\ [k \in 1..Len(Entries(now, i.sub.id)) |->
                               Unflagged(Entries(now, i.sub.id)[k])]
                           = [k \in 1..Len(Entries(before, i.sub.id)) |->
                               Unflagged(Entries(before, i.sub.id)[k])]

\* A removeSubscription has flagged its entry in a list that holds the entry
\* of another subscription, still Subscribed.
C23_Witness ==
    /\ RemoveReturned(inv[1])
    /\ inv[1].nOrgWrite = 1
    /\ Len(StoredList(inv[1])) = 2
    /\ \E k \in 1..2 :
         /\ StoredList(inv[1])[k].id # inv[1].sub.id
         /\ StoredList(inv[1])[k].saasSubscriptionStatus = Subscribed

\* The stored list of the invocation's tenant holds no entry with its id (the
\* tenant having no organization included).
NoStoredEntry(i) == Entries(StoredList(i), i.sub.id) = <<>>

\* C24: a removeSubscription(S) for which the purchaser's tenant has no
\* organization, or an organization without an entry with S.id, does not
\* return and writes no organization; when it has thrown at the organization
\* read, every User that matched S at its start is downgraded.
C24_UnknownSubscription ==
    \A p \in Tasks :
        LET i == inv[p]
            t == i.sub.purchaser.tenantId
        IN  (i.op = "remove" /\ NoStoredEntry(i)) =>
                /\ i.pc \notin {"returned", "flagOrg"}
                /\ i.nOrgWrite = 0
                /\ orgs = i.snap.orgs
                /\ (i.pc = "threw" /\ i.at = "findOrg" /\ i.stopped = "") =>
                       \A n \in 1..Len(i.snap.users) :
                           Matches(i.snap.users[n],
                                   SubscriptionUsersFilter(t, i.sub.id)) =>
                               LicenseFields(users[n]) = defaultUserSubscription

\* A removeSubscription for a tenant without organization has downgraded the
\* User it found and thrown at the organization read.
C24_Witness ==
    /\ inv[1].op = "remove"
    /\ inv[1].pc = "threw"
    /\ inv[1].at = "findOrg"
    /\ inv[1].stopped = ""
    /\ ~FindOrganization(orgs, inv[1].sub.purchaser.tenantId).exists
    /\ Len(inv[1].found) = 1
    /\ users[inv[1].found[1]].role = Member
    /\ users[inv[1].found[1]].license = "Free"

====
